---------------------------- MODULE Spec2Model ----------------------------
(***************************************************************************)
(* docker-health-monitor: the health-observation and remediation engine.   *)
(*                                                                         *)
(* Two activities share the Docker client and the counters:                *)
(*   - the scrape: Collector::encode runs check_health_state (enumerate    *)
(*     all containers, inspect each, fill a local gauge family, encode it) *)
(*   - the remediation loop: DockerHealthMonitor::run ticks on the restart *)
(*     interval and runs restart_unhealthy_containers.                     *)
(* Every remote call (list, inspect, restart) is a suspension point: the   *)
(* call is issued by one step and its response is handled by a later one.  *)
(* The Docker daemon is external: a response is any value of its type.     *)
(*                                                                         *)
(* Specifications:                                                         *)
(*   Spec, FairSpec   scrapes and the remediation loop, interleaved        *)
(*   SpecIdem         scrapes alone, each remembering the one before       *)
(*   SpecRetry        the remediation loop alone, each tick remembering    *)
(*                    the restart failures of the one before               *)
(*   FairSpecMain     main: the server task, the loop and the exit         *)
(*   SpecClassify     the health classifier as a pure function             *)
(*   SpecAttributes   MeterAttributes::attributes as a pure function       *)
(***************************************************************************)
EXTENDS Integers, Sequences, FiniteSets, TLC

(***************************************************************************)
(* Bounds of the model.                                                    *)
(***************************************************************************)
MaxList == 2
MaxInvocations == 2

(* #[tokio::main(flavor = "multi_thread", worker_threads = 1)] *)
WorkerThreads == 1

(***************************************************************************)
(* Option<T>.                                                              *)
(***************************************************************************)
None == [some |-> FALSE]
Some(x) == [some |-> TRUE, val |-> x]

(***************************************************************************)
(* container_health.rs                                                     *)
(***************************************************************************)
HealthStatusEnum == {"EMPTY", "NONE", "STARTING", "HEALTHY", "UNHEALTHY"}

(* A ContainerHealth is its field container_health_status:                 *)
(* Option<HealthStatusEnum>.                                               *)
ContainerHealth == {None} \cup {Some(s) : s \in HealthStatusEnum}

(* Mutant: the trailing push of the None variant is forgotten.             *)
valuesWithoutNone ==
    << Some("EMPTY"), Some("NONE"), Some("STARTING"), Some("HEALTHY"),
       Some("UNHEALTHY") >>

(* ContainerHealth::values() *)
values ==
    << Some("EMPTY"), Some("NONE"), Some("STARTING"), Some("HEALTHY"),
       Some("UNHEALTHY"), None >>

(* Option<Health>: a health block is its optional status.                  *)
OptionHealth ==
    {None} \cup {Some([status |-> st]) : st \in ContainerHealth}

(* Mutant: a present health block without status reads as NONE.            *)
FromHealthDefaultNone(value) ==
    IF value.some
    THEN (IF value.val.status.some THEN value.val.status ELSE Some("NONE"))
    ELSE None

(* impl From<Option<Health>> for ContainerHealth:                          *)
(* value.and_then(|health| health.status)                                  *)
FromHealth(value) ==
    IF value.some THEN value.val.status ELSE None

(* Mutant: the absent status is rendered like the NONE status.             *)
ValueFromNoneAsNone(value) ==
    IF value.some
    THEN CASE value.val = "EMPTY" -> ""
           [] value.val = "NONE" -> "none"
           [] value.val = "STARTING" -> "starting"
           [] value.val = "HEALTHY" -> "healthy"
           [] value.val = "UNHEALTHY" -> "unhealthy"
    ELSE "none"

(* impl From<ContainerHealth> for Value: the status formatted with its     *)
(* Display form, the absent status as "null".                              *)
ValueFrom(value) ==
    IF value.some
    THEN CASE value.val = "EMPTY" -> ""
           [] value.val = "NONE" -> "none"
           [] value.val = "STARTING" -> "starting"
           [] value.val = "HEALTHY" -> "healthy"
           [] value.val = "UNHEALTHY" -> "unhealthy"
    ELSE "null"

(* Mutant: every leading '/' is stripped, not just one.                    *)
RECURSIVE StripAllPrefix(_)
StripAllPrefix(name) ==
    IF Len(name) > 0 /\ Head(name) = "/" THEN StripAllPrefix(Tail(name))
    ELSE name

(***************************************************************************)
(* meter_attributes.rs: a name is a sequence of characters.                *)
(***************************************************************************)
(* name.strip_prefix('/').map_or(name.clone(), String::from) *)
StripPrefix(name) ==
    IF Len(name) > 0 /\ Head(name) = "/" THEN Tail(name) ELSE name

(* names.and_then(|names| names.first().cloned()).map(strip) *)
Name(c) ==
    IF c.names.some /\ Len(c.names.val) > 0
    THEN Some(StripPrefix(Head(c.names.val)))
    ELSE None

(* ContainerSummary -> ContainerSummaryLabels: id, image, name and health. *)
(* Used as built by the restart loop, the health dimension is the          *)
(* triggering condition "unhealthy".                                       *)
ContainerSummaryLabels(c) ==
    [id |-> c.id, image |-> c.image, name |-> Name(c),
     health |-> Some("unhealthy")]

(***************************************************************************)
(* The container records the daemon may return.                            *)
(***************************************************************************)
CA == [id |-> Some("a"), names |-> Some(<< <<"/", "w">> >>),
       image |-> Some("nginx")]
CB == [id |-> Some("b"), names |-> Some(<< >>), image |-> None]
CN == [id |-> None, names |-> Some(<< <<"g">> >>), image |-> Some("busybox")]
ContainerSummaries == {CA, CB, CN}

(* Lists of distinct containers of length at most MaxList. *)
ContainerLists ==
    UNION {{l \in [1..n -> ContainerSummaries] :
                \A i, j \in 1..n : l[i] = l[j] => i = j} : n \in 0..MaxList}

Err == [ok |-> FALSE]
Ok(x) == [ok |-> TRUE, val |-> x]

(* Result<Vec<ContainerSummary>> of docker.list_containers *)
ListResponses == {Err} \cup {Ok(l) : l \in ContainerLists}

(* Result<ContainerInspectResponse> of docker.inspect_container *)
InspectResponses ==
    {Err} \cup {Ok([state |-> None])}
          \cup {Ok([state |-> Some([health |-> h])]) : h \in OptionHealth}

(* Result<()> of docker.restart_container *)
RestartResponses == {"ok", "err"}

(***************************************************************************)
(* State.  The locals of a scrape and of a tick stay readable after the    *)
(* invocation returned, until the next one starts.                         *)
(***************************************************************************)
VARIABLES
    restart_interval,        \* Option<Duration> of the monitor
    error_counter,           \* Counter "errors"
    restart_counter,         \* Family "restarts": labels -> count
    failed_restart_counter,  \* Family "restart_failures": labels -> count
    s_pc,                    \* scrape: idle, list, loop, inspect
    containers,              \* scrape: result of list_containers
    s_i,                     \* scrape: position in containers
    family,                  \* scrape: local gauge family, labels -> 0/1
    encoded,                 \* scrape: the "health" family written to the encoder
    s_result,                \* scrape: none, pending, ok, err_*
    s_log,                   \* scrape: inspect calls issued, with their response
    scrapes,                 \* scrapes started
    t_pc,                    \* monitor: start, returned, tick_wait, list, loop, restart
    unhealthy_containers,    \* tick: result of the filtered list_containers
    t_i,                     \* tick: position in unhealthy_containers
    t_result,                \* tick: none, pending, ok, err_*
    t_log,                   \* tick: restart calls issued, with their outcome
    list_calls,              \* unhealthy-list calls issued so far
    ticks,                   \* timer ticks so far
    p_pc,                    \* pure functions: off, input, classified, labelled
    p_in,                    \* pure functions: the input
    p_out,                   \* pure functions: the result
    server_pc,               \* main: the server task: binding, serving, failed
    exit_code,               \* main: Option of the process's exit code
    prev,                    \* history: the previous scrape, when recorded
    t_prev                   \* history: ids whose restart failed a tick ago

scrape_vars ==
    << s_pc, containers, s_i, family, encoded, s_result, s_log, scrapes >>
tick_vars ==
    << t_pc, unhealthy_containers, t_i, t_result, t_log, list_calls, ticks >>
counter_vars == << error_counter, restart_counter, failed_restart_counter >>
pure_vars == << p_pc, p_in, p_out >>
main_vars == << server_pc, exit_code >>
hist_vars == << prev, t_prev >>
aux_vars == << main_vars, hist_vars >>
vars == << restart_interval, counter_vars, scrape_vars, tick_vars, pure_vars,
           aux_vars >>

EmptyFamily == [l \in {} |-> 0]

(* Mutant: counting a series starts the family over with that series only. *)
IncReplacing(fam, labels) ==
    [l \in {labels} |-> IF labels \in DOMAIN fam THEN fam[labels] + 1 ELSE 1]

(* Family::get_or_create(labels).inc() *)
Inc(fam, labels) ==
    [l \in DOMAIN fam \cup {labels} |->
        IF l = labels
        THEN (IF l \in DOMAIN fam THEN fam[l] + 1 ELSE 1)
        ELSE fam[l]]

(* Family::get_or_create(labels).set(v) *)
Set(fam, labels, v) ==
    [l \in DOMAIN fam \cup {labels} |-> IF l = labels THEN v ELSE fam[l]]

(***************************************************************************)
(* The single worker.  The scrape callback runs on the worker thread and   *)
(* waits synchronously for its call chain.  block_in_place hands the       *)
(* worker's core to a replacement thread first, so no worker is lost while *)
(* the callback waits; without it the waiting callback occupies a worker.  *)
(***************************************************************************)
NoBlockInPlace == FALSE

(* tokio::task::block_in_place(|| futures::executor::block_on(..)) *)
BlockInPlace == TRUE

ScrapeWaiting == s_pc \in {"list", "inspect"}

BlockedWorkers == IF ScrapeWaiting /\ ~BlockInPlace THEN 1 ELSE 0

(* The runtime's I/O and timer driver is driven by a worker that is not    *)
(* blocked: responses and timer ticks are delivered only then.             *)
DriverRuns == BlockedWorkers < WorkerThreads

(***************************************************************************)
(* Init: the state after DockerHealthMonitor::new; the restart interval is *)
(* whatever the command line gave.                                         *)
(***************************************************************************)
InitEngine ==
    /\ error_counter = 0
    /\ restart_counter = EmptyFamily
    /\ failed_restart_counter = EmptyFamily
    /\ s_pc = "idle"
    /\ containers = << >>
    /\ s_i = 0
    /\ family = EmptyFamily
    /\ encoded = None
    /\ s_result = "none"
    /\ s_log = << >>
    /\ scrapes = 0
    /\ t_pc = "start"
    /\ unhealthy_containers = << >>
    /\ t_i = 0
    /\ t_result = "none"
    /\ t_log = << >>
    /\ list_calls = 0
    /\ ticks = 0
    /\ exit_code = None
    /\ prev = None
    /\ t_prev = {}

Init ==
    /\ restart_interval \in {None, Some(1000)}
    /\ InitEngine
    /\ server_pc = "serving"
    /\ p_pc = "off"
    /\ p_in = << >>
    /\ p_out = None

(***************************************************************************)
(* The scrape: Collector::encode and check_health_state.                   *)
(***************************************************************************)
(* Mutant: the error of a failed collection is dropped without counting.   *)
MapErrNoInc(ec) == ec

(* encode: .map_err(|e| { self.error_counter.inc(); .. }) *)
MapErr(ec) == ec + 1

(* Mutant: a failed collection poisons the collector for good.             *)
ScrapeFailFatal(kind) ==
    /\ s_pc' = "poisoned"
    /\ s_result' = kind
    /\ error_counter' = MapErr(error_counter)
    /\ UNCHANGED << family, encoded, restart_counter, failed_restart_counter >>

(* check_health_state returned Err(kind): nothing was written to the       *)
(* encoder, encode counts the error.                                      *)
ScrapeFail(kind) ==
    /\ s_pc' = "idle"
    /\ s_result' = kind
    /\ error_counter' = MapErr(error_counter)
    /\ UNCHANGED << family, encoded, restart_counter, failed_restart_counter >>

(* Mutant: the gauge family is a field that lives across scrapes.          *)
FamilyKept == family

(* let family = Family::<ContainerSummaryLabels, Gauge>::default(); *)
FamilyDefault == EmptyFamily

(* A scrape request reaches the collector through the serving server:      *)
(* encode enters block_in_place and check_health_state issues              *)
(* list_containers(all).  The family of the scrape before stays in the     *)
(* variable until this scrape creates its own.                             *)
Encode ==
    /\ s_pc = "idle"
    /\ server_pc = "serving"
    /\ scrapes + ticks < MaxInvocations
    /\ BlockedWorkers < WorkerThreads
    /\ s_pc' = "list"
    /\ scrapes' = scrapes + 1
    /\ containers' = << >>
    /\ s_i' = 0
    /\ encoded' = None
    /\ s_result' = "pending"
    /\ s_log' = << >>
    /\ UNCHANGED << restart_interval, family, counter_vars, tick_vars,
                    pure_vars, main_vars >>

ScrapeStart ==
    /\ Encode
    /\ UNCHANGED hist_vars

(* let containers = docker.list_containers(Some(options)).await?; *)
ScrapeListReturn ==
    /\ s_pc = "list"
    /\ DriverRuns
    /\ \E resp \in ListResponses :
        IF resp.ok
        THEN /\ containers' = resp.val
             /\ s_i' = 1
             /\ s_pc' = "loop"
             /\ family' = FamilyDefault
             /\ UNCHANGED << encoded, s_result, counter_vars >>
        ELSE /\ ScrapeFail("err_list")
             /\ UNCHANGED << containers, s_i >>
    /\ UNCHANGED << restart_interval, s_log, scrapes, tick_vars, pure_vars,
                    aux_vars >>

(* Mutant: a container without id is skipped and the scrape goes on.       *)
ScrapeIterSkipsIdless ==
    /\ s_pc = "loop"
    /\ IF s_i > Len(containers)
       THEN /\ encoded' = Some(family)
            /\ s_result' = "ok"
            /\ s_pc' = "idle"
            /\ UNCHANGED << s_i, family, s_log, counter_vars >>
       ELSE IF containers[s_i].id.some
       THEN /\ s_log' = Append(s_log, [id |-> containers[s_i].id.val,
                                       resp |-> None])
            /\ s_pc' = "inspect"
            /\ UNCHANGED << s_i, family, encoded, s_result, counter_vars >>
       ELSE /\ s_i' = s_i + 1
            /\ s_pc' = "loop"
            /\ UNCHANGED << family, encoded, s_result, s_log, counter_vars >>
    /\ UNCHANGED << restart_interval, containers, scrapes, tick_vars,
                    pure_vars, aux_vars >>

(* Head of the for loop: past the last container the family is encoded;    *)
(* a container without id fails the scrape; otherwise health_state issues  *)
(* inspect_container(id).                                                  *)
ScrapeIter ==
    /\ s_pc = "loop"
    /\ IF s_i > Len(containers)
       THEN /\ encoded' = Some(family)
            /\ s_result' = "ok"
            /\ s_pc' = "idle"
            /\ UNCHANGED << family, s_log, counter_vars >>
       ELSE IF containers[s_i].id.some
       THEN /\ s_log' = Append(s_log, [id |-> containers[s_i].id.val,
                                       resp |-> None])
            /\ s_pc' = "inspect"
            /\ UNCHANGED << family, encoded, s_result, counter_vars >>
       ELSE /\ ScrapeFail("err_id")
            /\ UNCHANGED s_log
    /\ UNCHANGED << restart_interval, containers, s_i, scrapes, tick_vars,
                    pure_vars, aux_vars >>

(* Mutant: the labels of an observation carry the health value only, not   *)
(* the identity of the container.                                          *)
HealthLabelsNoIdentity(c, health_status) ==
    [id |-> None, image |-> None, name |-> None,
     health |-> Some(ValueFrom(health_status))]

(* labels = container.into(); labels.health = Some(health_status.into()) *)
HealthLabels(c, health_status) ==
    [ContainerSummaryLabels(c) EXCEPT !.health = Some(ValueFrom(health_status))]

(* for health_status in ContainerHealth::values() {                        *)
(*     family.get_or_create(&labels).set(state == health_status) }         *)
RECURSIVE SetGauges(_, _, _, _)
SetGauges(fam, c, container_health_state, k) ==
    IF k > Len(values)
    THEN fam
    ELSE SetGauges(Set(fam, HealthLabels(c, values[k]),
                       IF container_health_state = values[k] THEN 1 ELSE 0),
                   c, container_health_state, k + 1)

(* Mutant: each container's observations are written to the encoder as    *)
(* soon as they are resolved.                                              *)
ScrapeInspectReturnStreaming ==
    /\ s_pc = "inspect"
    /\ DriverRuns
    /\ \E resp \in InspectResponses :
        /\ s_log' = [s_log EXCEPT ![Len(s_log)].resp = Some(resp)]
        /\ IF ~resp.ok
           THEN /\ ScrapeFail("err_inspect")
                /\ UNCHANGED s_i
           ELSE IF ~resp.val.state.some
           THEN /\ ScrapeFail("err_state")
                /\ UNCHANGED s_i
           ELSE /\ family' = SetGauges(family, containers[s_i],
                                       FromHealth(resp.val.state.val.health), 1)
                /\ encoded' = Some(family')
                /\ s_i' = s_i + 1
                /\ s_pc' = "loop"
                /\ UNCHANGED << s_result, counter_vars >>
    /\ UNCHANGED << restart_interval, containers, scrapes, tick_vars,
                    pure_vars, aux_vars >>

(* health_state: inspect_container(id).await?, state.ok_or(..)?,           *)
(* state.health.into(); then the gauges of this container are set.         *)
ScrapeInspectReturn ==
    /\ s_pc = "inspect"
    /\ DriverRuns
    /\ \E resp \in InspectResponses :
        /\ s_log' = [s_log EXCEPT ![Len(s_log)].resp = Some(resp)]
        /\ IF ~resp.ok
           THEN /\ ScrapeFail("err_inspect")
                /\ UNCHANGED s_i
           ELSE IF ~resp.val.state.some
           THEN /\ ScrapeFail("err_state")
                /\ UNCHANGED s_i
           ELSE /\ family' = SetGauges(family, containers[s_i],
                                       FromHealth(resp.val.state.val.health), 1)
                /\ s_i' = s_i + 1
                /\ s_pc' = "loop"
                /\ UNCHANGED << encoded, s_result, counter_vars >>
    /\ UNCHANGED << restart_interval, containers, scrapes, tick_vars,
                    pure_vars, aux_vars >>

(***************************************************************************)
(* The remediation loop: run and restart_unhealthy_containers.             *)
(***************************************************************************)
(* Mutant: the loop is started whether or not an interval is configured.   *)
MonitorRunAlways ==
    /\ t_pc = "start"
    /\ t_pc' = "tick_wait"
    /\ UNCHANGED << restart_interval, counter_vars, scrape_vars,
                    unhealthy_containers, t_i, t_result, t_log, list_calls,
                    ticks, pure_vars, aux_vars >>

(* run: with an interval the loop is entered, without one run returns Ok. *)
MonitorRun ==
    /\ t_pc = "start"
    /\ t_pc' = IF restart_interval.some THEN "tick_wait" ELSE "returned"
    /\ UNCHANGED << restart_interval, counter_vars, scrape_vars,
                    unhealthy_containers, t_i, t_result, t_log, list_calls,
                    ticks, pure_vars, aux_vars >>

(* interval.tick().await completes; restart_unhealthy_containers issues    *)
(* list_containers(all, health=unhealthy).                                 *)
Tick ==
    /\ t_pc = "tick_wait"
    /\ scrapes + ticks < MaxInvocations
    /\ DriverRuns
    /\ t_pc' = "list"
    /\ ticks' = ticks + 1
    /\ list_calls' = list_calls + 1
    /\ unhealthy_containers' = << >>
    /\ t_i' = 0
    /\ t_result' = "pending"
    /\ t_log' = << >>
    /\ UNCHANGED << restart_interval, counter_vars, scrape_vars, pure_vars,
                    main_vars >>

TimerTick ==
    /\ Tick
    /\ UNCHANGED hist_vars

(* Mutant: run logs the error of a failed pass without counting it.        *)
TickFailUncounted(kind) ==
    /\ t_pc' = "tick_wait"
    /\ t_result' = kind
    /\ UNCHANGED << error_counter, restart_counter, failed_restart_counter >>

(* restart_unhealthy_containers returned Err: run counts it and goes on    *)
(* to the next interval.tick().                                            *)
TickFail(kind) ==
    /\ t_pc' = "tick_wait"
    /\ t_result' = kind
    /\ error_counter' = error_counter + 1
    /\ UNCHANGED << restart_counter, failed_restart_counter >>

(* Mutant: a failed list call is repeated at once.                         *)
TickListReturnRetry ==
    /\ t_pc = "list"
    /\ DriverRuns
    /\ \E resp \in ListResponses :
        IF resp.ok
        THEN /\ unhealthy_containers' = resp.val
             /\ t_i' = 1
             /\ t_pc' = "loop"
             /\ UNCHANGED << t_result, counter_vars, list_calls >>
        ELSE /\ t_pc' = "list"
             /\ list_calls' = list_calls + 1
             /\ error_counter' = error_counter + 1
             /\ UNCHANGED << restart_counter, failed_restart_counter,
                             unhealthy_containers, t_i, t_result >>
    /\ UNCHANGED << restart_interval, scrape_vars, t_log, ticks, pure_vars,
                    aux_vars >>

(* let unhealthy_containers = self.docker.list_containers(..).await?; *)
TickListReturn ==
    /\ t_pc = "list"
    /\ DriverRuns
    /\ \E resp \in ListResponses :
        IF resp.ok
        THEN /\ unhealthy_containers' = resp.val
             /\ t_i' = 1
             /\ t_pc' = "loop"
             /\ UNCHANGED << t_result, counter_vars >>
        ELSE /\ TickFail("err_list")
             /\ UNCHANGED << unhealthy_containers, t_i >>
    /\ UNCHANGED << restart_interval, scrape_vars, t_log, list_calls, ticks,
                    pure_vars, aux_vars >>

(* Mutant: a container without id ends the pass with an error.             *)
TickIterIdRequired ==
    /\ t_pc = "loop"
    /\ IF t_i > Len(unhealthy_containers)
       THEN /\ t_result' = "ok"
            /\ t_pc' = "tick_wait"
            /\ UNCHANGED << t_i, t_log, counter_vars >>
       ELSE IF unhealthy_containers[t_i].id.some
       THEN /\ t_log' = Append(t_log, [id |-> unhealthy_containers[t_i].id.val,
                                       result |-> "pending"])
            /\ t_pc' = "restart"
            /\ UNCHANGED << t_i, t_result, counter_vars >>
       ELSE /\ TickFail("err_id")
            /\ UNCHANGED << t_i, t_log >>
    /\ UNCHANGED << restart_interval, scrape_vars, unhealthy_containers,
                    list_calls, ticks, pure_vars, aux_vars >>

(* Head of the for loop: past the last container the pass returns Ok; a    *)
(* container with an id gets restart_container(id); one without id is      *)
(* counted as a failed restart and the loop goes on.                       *)
TickIter ==
    /\ t_pc = "loop"
    /\ IF t_i > Len(unhealthy_containers)
       THEN /\ t_result' = "ok"
            /\ t_pc' = "tick_wait"
            /\ UNCHANGED << t_i, t_log, counter_vars >>
       ELSE IF unhealthy_containers[t_i].id.some
       THEN /\ t_log' = Append(t_log, [id |-> unhealthy_containers[t_i].id.val,
                                       result |-> "pending"])
            /\ t_pc' = "restart"
            /\ UNCHANGED << t_i, t_result, counter_vars >>
       ELSE /\ failed_restart_counter' =
                   Inc(failed_restart_counter,
                       ContainerSummaryLabels(unhealthy_containers[t_i]))
            /\ t_i' = t_i + 1
            /\ t_pc' = "loop"
            /\ UNCHANGED << t_result, t_log, error_counter, restart_counter >>
    /\ UNCHANGED << restart_interval, scrape_vars, unhealthy_containers,
                    list_calls, ticks, pure_vars, aux_vars >>

(* Mutant: a failed restart call is repeated once before giving up.        *)
TickRestartReturnRetry ==
    /\ t_pc = "restart"
    /\ DriverRuns
    /\ \E resp \in RestartResponses :
        LET answered == [t_log EXCEPT ![Len(t_log)].result = resp]
            id == t_log[Len(t_log)].id
            calls == {k \in 1..Len(t_log) : t_log[k].id = id}
        IN IF resp = "ok"
           THEN /\ t_log' = answered
                /\ restart_counter' =
                       Inc(restart_counter,
                           ContainerSummaryLabels(unhealthy_containers[t_i]))
                /\ t_i' = t_i + 1
                /\ t_pc' = "loop"
                /\ UNCHANGED << t_result, error_counter,
                                failed_restart_counter >>
           ELSE IF Cardinality(calls) = 1
           THEN /\ t_log' = Append(answered, [id |-> id, result |-> "pending"])
                /\ UNCHANGED << t_pc, t_i, t_result, counter_vars >>
           ELSE /\ t_log' = answered
                /\ TickFail("err_restart")
                /\ UNCHANGED t_i
    /\ UNCHANGED << restart_interval, scrape_vars, unhealthy_containers,
                    list_calls, ticks, pure_vars, aux_vars >>

(* self.docker.restart_container(id, ..).await?;                           *)
(* self.restart_counter.get_or_create(&container.into()).inc();            *)
(* A failed call returns the error from restart_unhealthy_containers.      *)
TickRestartReturn ==
    /\ t_pc = "restart"
    /\ DriverRuns
    /\ \E resp \in RestartResponses :
        /\ t_log' = [t_log EXCEPT ![Len(t_log)].result = resp]
        /\ IF resp = "ok"
           THEN /\ restart_counter' =
                       Inc(restart_counter,
                           ContainerSummaryLabels(unhealthy_containers[t_i]))
                /\ t_i' = t_i + 1
                /\ t_pc' = "loop"
                /\ UNCHANGED << t_result, error_counter,
                                failed_restart_counter >>
           ELSE /\ TickFail("err_restart")
                /\ UNCHANGED t_i
    /\ UNCHANGED << restart_interval, scrape_vars, unhealthy_containers,
                    list_calls, ticks, pure_vars, aux_vars >>

Next ==
    \/ ScrapeStart
    \/ ScrapeListReturn
    \/ ScrapeIter
    \/ ScrapeInspectReturn
    \/ MonitorRun
    \/ TimerTick
    \/ TickListReturn
    \/ TickIter
    \/ TickRestartReturn

Spec == Init /\ [][Next]_vars

(***************************************************************************)
(* Fairness.  A request may or may not arrive (ScrapeStart is not fair).   *)
(* Code that can run does run, the timer fires, and every remote call      *)
(* eventually returns, as long as the driver that delivers them runs.      *)
(***************************************************************************)
Fairness ==
    /\ WF_vars(ScrapeListReturn)
    /\ WF_vars(ScrapeIter)
    /\ WF_vars(ScrapeInspectReturn)
    /\ WF_vars(MonitorRun)
    /\ WF_vars(TimerTick)
    /\ WF_vars(TickListReturn)
    /\ WF_vars(TickIter)
    /\ WF_vars(TickRestartReturn)

FairSpec == Init /\ [][Next]_vars /\ Fairness

(***************************************************************************)
(* Scrapes on their own, each one remembering the one before it: what was  *)
(* enumerated, what the inspect calls returned and what was published.     *)
(***************************************************************************)
ScrapeStartRecorded ==
    /\ Encode
    /\ prev' = IF s_result = "none"
               THEN None
               ELSE Some([containers |-> containers, s_log |-> s_log,
                          encoded |-> encoded, s_result |-> s_result])
    /\ UNCHANGED t_prev

NextIdem ==
    \/ ScrapeStartRecorded
    \/ ScrapeListReturn
    \/ ScrapeIter
    \/ ScrapeInspectReturn

SpecIdem == Init /\ [][NextIdem]_vars

(***************************************************************************)
(* The remediation loop on its own, each tick remembering the ids whose    *)
(* restart call failed in the tick before it.                              *)
(***************************************************************************)
TimerTickRecorded ==
    /\ Tick
    /\ t_prev' = {t_log[k].id : k \in {j \in 1..Len(t_log) :
                                          t_log[j].result = "err"}}
    /\ UNCHANGED prev

NextRetry ==
    \/ MonitorRun
    \/ TimerTickRecorded
    \/ TickListReturn
    \/ TickIter
    \/ TickRestartReturn

SpecRetry == Init /\ [][NextRetry]_vars

(***************************************************************************)
(* main.rs: the server task spawned by main, the monitor's run() polled by *)
(* main, and main's return.  No scrape request arrives.                    *)
(***************************************************************************)
InitMain ==
    /\ restart_interval \in {None, Some(1000)}
    /\ InitEngine
    /\ server_pc = "binding"
    /\ p_pc = "off"
    /\ p_in = << >>
    /\ p_out = None

(* Metrics::run: let listener = TcpListener::bind(&bind_address).await?; *)
MetricsRun ==
    /\ server_pc = "binding"
    /\ \E bound \in BOOLEAN :
          server_pc' = IF bound THEN "serving" ELSE "failed"
    /\ UNCHANGED << restart_interval, counter_vars, scrape_vars, tick_vars,
                    pure_vars, exit_code, hist_vars >>

(* Metrics::run: axum::serve(listener, app).await? returns an error. *)
ServeReturn ==
    /\ server_pc = "serving"
    /\ server_pc' = "failed"
    /\ UNCHANGED << restart_interval, counter_vars, scrape_vars, tick_vars,
                    pure_vars, exit_code, hist_vars >>

(* let (server, monitor) = tokio::join!(server, monitor.run());            *)
(* monitor?; server??; Ok(())                                              *)
(* join! completes when the server task has ended and run() has returned;  *)
(* run() returns Ok, the server task's error makes main return Err.        *)
Main ==
    /\ exit_code = None
    /\ server_pc = "failed"
    /\ t_pc = "returned"
    /\ exit_code' = Some(IF server_pc = "failed" THEN 1 ELSE 0)
    /\ UNCHANGED << restart_interval, counter_vars, scrape_vars, tick_vars,
                    pure_vars, server_pc, hist_vars >>

NextMain ==
    \/ MetricsRun
    \/ ServeReturn
    \/ Main
    \/ MonitorRun
    \/ TimerTick
    \/ TickListReturn
    \/ TickIter
    \/ TickRestartReturn

(* Code that can run does run, the timer fires and remote calls return;    *)
(* the server may serve without ever failing.                              *)
FairnessMain ==
    /\ WF_vars(MetricsRun)
    /\ WF_vars(Main)
    /\ WF_vars(MonitorRun)
    /\ WF_vars(TimerTick)
    /\ WF_vars(TickListReturn)
    /\ WF_vars(TickIter)
    /\ WF_vars(TickRestartReturn)

FairSpecMain == InitMain /\ [][NextMain]_vars /\ FairnessMain

(***************************************************************************)
(* The health classifier as a pure function: a pair of raw health blocks   *)
(* is classified (From<Option<Health>>) and then rendered as label values  *)
(* (From<ContainerHealth> for Value).                                      *)
(***************************************************************************)
InitClassify ==
    /\ restart_interval = None
    /\ InitEngine
    /\ server_pc = "serving"
    /\ p_pc = "input"
    /\ p_in \in OptionHealth \X OptionHealth
    /\ p_out = None

Classify ==
    /\ p_pc = "input"
    /\ p_pc' = "classified"
    /\ p_out' = Some(<< FromHealth(p_in[1]), FromHealth(p_in[2]) >>)
    /\ UNCHANGED << restart_interval, counter_vars, scrape_vars, tick_vars,
                    p_in, aux_vars >>

Label ==
    /\ p_pc = "classified"
    /\ p_pc' = "labelled"
    /\ p_out' = Some(<< ValueFrom(p_out.val[1]), ValueFrom(p_out.val[2]) >>)
    /\ UNCHANGED << restart_interval, counter_vars, scrape_vars, tick_vars,
                    p_in, aux_vars >>

NextClassify == Classify \/ Label

SpecClassify == InitClassify /\ [][NextClassify]_vars

(***************************************************************************)
(* meter_attributes.rs: MeterAttributes::attributes.  Keys and string      *)
(* values are sequences of characters; a KeyValue is a key with a value.   *)
(***************************************************************************)
KeyValue(key, value) == [key |-> key, value |-> value]

KeyId == << "i", "d" >>
KeyName == << "n", "a", "m", "e" >>
KeyImage == << "i", "m", "a", "g", "e" >>
KeyHealth == << "h", "e", "a", "l", "t", "h" >>

(* OptionalAttribute::attribute:                                           *)
(* self.map(|value| KeyValue::new(key.to_string(), value))                 *)
attribute(self, key) ==
    IF self.some THEN Some(KeyValue(key, self.val)) ELSE None

(* format!("label_{k}") *)
FormatLabel(k) == << "l", "a", "b", "e", "l", "_" >> \o k

(* The orders in which labels.into_iter() may yield the keys of the map.   *)
IterationOrders(labels) ==
    {o \in [1..Cardinality(DOMAIN labels) -> DOMAIN labels] :
        \A i, j \in DOMAIN o : o[i] = o[j] => i = j}

(* vec![..].into_iter().flatten().collect() *)
Flatten(v) ==
    LET present == SelectSeq(v, LAMBDA o : o.some)
    IN [k \in 1..Len(present) |-> present[k].val]

(* MeterAttributes::attributes for ContainerSummary; order is the order    *)
(* in which the label map was iterated.                                    *)
attributes(self, order) ==
    LET id == attribute(self.id, KeyId)
        name == attribute(Name(self), KeyName)
        image == attribute(self.image, KeyImage)
        labels == IF self.labels.some
                  THEN [k \in 1..Len(order) |->
                           KeyValue(FormatLabel(order[k]),
                                    self.labels.val[order[k]])]
                  ELSE << >>
    IN Flatten(<< id, name, image >>) \o labels

(* The names lists of the container records that are projected. *)
NamesInputs ==
    {None, Some(<< >>),
     Some(<< << "/", "w", "e", "b", "-", "1" >> >>),
     Some(<< << "/", "/", "w", "e", "b" >> >>),
     Some(<< << "w", "e", "b" >> >>),
     Some(<< << "/" >> >>),
     Some(<< << >> >>),
     Some(<< << "/", "a" >>, << "/", "b" >> >>)}

(* The runtime label maps of the container records that are projected. *)
LabelsInputs ==
    {None, Some([k \in {} |-> << >>]),
     Some([k \in {<< "e", "n", "v" >>} |-> << "p" >>]),
     Some([k \in {<< "e", "n", "v" >>, << "t" >>} |-> << "p" >>])}

SummaryInputs ==
    [id : {None, Some(<< "a" >>)}, names : NamesInputs,
     image : {None, Some(<< "n" >>)}, labels : LabelsInputs]

InitAttributes ==
    /\ restart_interval = None
    /\ InitEngine
    /\ server_pc = "serving"
    /\ p_pc = "input"
    /\ p_in \in SummaryInputs
    /\ p_out = None

Project ==
    /\ p_pc = "input"
    /\ p_pc' = "projected"
    /\ \E order \in (IF p_in.labels.some
                     THEN IterationOrders(p_in.labels.val) ELSE {<< >>}) :
          p_out' = Some(attributes(p_in, order))
    /\ UNCHANGED << restart_interval, counter_vars, scrape_vars, tick_vars,
                    p_in, aux_vars >>

NextAttributes == Project

SpecAttributes == InitAttributes /\ [][NextAttributes]_vars

(***************************************************************************)
(* Vocabulary of the properties.                                           *)
(***************************************************************************)
(* The value of a series, 0 when the series does not exist. *)
Val(fam, l) == IF l \in DOMAIN fam THEN fam[l] ELSE 0

RECURSIVE SumOver(_, _)
SumOver(fam, S) ==
    IF S = {} THEN 0
    ELSE LET l == CHOOSE x \in S : TRUE
         IN fam[l] + SumOver(fam, S \ {l})

Total(fam) == SumOver(fam, DOMAIN fam)

(* The series of a family that carry the identity labels of container c. *)
SeriesOf(fam, c) ==
    {l \in DOMAIN fam : l.id = c.id /\ l.image = c.image /\ l.name = Name(c)}

(* The label values of Empty, NoHealthCheck, Starting, Healthy, Unhealthy  *)
(* and Unknown.                                                            *)
ClassificationLabels == {"", "none", "starting", "healthy", "unhealthy", "null"}

ScrapeFailed == s_result \in {"err_list", "err_id", "err_inspect", "err_state"}

(* The raw health block the k-th inspect call of the scrape returned. *)
InspectedHealth(k) == s_log[k].resp.val.val.state.val.health

(***************************************************************************)
(* C1: a scrape that completed successfully has published, for every       *)
(* enumerated container, one health observation per classification value   *)
(* (six of them); their sum is 1, and the observation of the resolved      *)
(* classification is the one that reads 1.                                 *)
(***************************************************************************)
C1_HealthSumIsOne ==
    s_result = "ok" =>
        /\ encoded.some
        /\ \A k \in 1..Len(containers) :
            LET c == containers[k]
                S == SeriesOf(encoded.val, c)
            IN /\ {l.health : l \in S} = {Some(v) : v \in ClassificationLabels}
               /\ Cardinality(S) = 6
               /\ \A l \in S : encoded.val[l] \in {0, 1}
               /\ SumOver(encoded.val, S) = 1
               /\ encoded.val[HealthLabels(c, FromHealth(InspectedHealth(k)))] = 1

(* A successful scrape of two containers, the first resolved as Unknown,   *)
(* while a remediation tick is waiting for a restart call.                 *)
C1_Witness ==
    /\ s_result = "ok"
    /\ Len(containers) = 2
    /\ t_pc = "restart"
    /\ ~InspectedHealth(1).some
    /\ Val(encoded.val, HealthLabels(containers[1], None)) = 1

(***************************************************************************)
(* C2: the health snapshot of a scrape is all-or-nothing.  A scrape that   *)
(* failed (enumeration, missing id, inspect, missing state) exposes no     *)
(* health observation, nothing is exposed while the scrape is in progress, *)
(* and an exposed snapshot covers every enumerated container.              *)
(***************************************************************************)
C2_AllOrNothing ==
    /\ ScrapeFailed => encoded = None
    /\ s_result = "pending" => encoded = None
    /\ encoded.some =>
        /\ s_result = "ok"
        /\ \A k \in 1..Len(containers) :
               SeriesOf(encoded.val, containers[k]) # {}

(* The inspect call of the second container failed after the first one     *)
(* had been resolved; nothing is exposed.                                  *)
C2_Witness ==
    /\ s_result = "err_inspect"
    /\ s_i = 2
    /\ Len(s_log) = 2
    /\ s_log[1].resp.val.ok
    /\ encoded = None

(***************************************************************************)
(* C3: with the single worker a scrape never deadlocks the process.  While *)
(* the scrape callback waits for its calls no worker is blocked, so the    *)
(* timer can fire whenever the loop waits for it; every started scrape     *)
(* completes with a snapshot or an error, and every started remediation    *)
(* pass completes and returns to waiting for the next tick.                *)
(***************************************************************************)
C3_NoDeadlock ==
    /\ [](ScrapeWaiting => BlockedWorkers < WorkerThreads)
    /\ []((t_pc = "tick_wait" /\ scrapes + ticks < MaxInvocations)
            => ENABLED TimerTick)
    /\ (s_pc # "idle") ~> (s_pc = "idle" /\ (s_result = "ok" \/ ScrapeFailed))
    /\ (t_pc \in {"list", "loop", "restart"}) ~> (t_pc = "tick_wait")

(* A scrape ran to completion and a remediation tick is under way. *)
C3_Witness ==
    /\ scrapes = 1
    /\ s_pc = "idle"
    /\ s_result = "ok"
    /\ Len(containers) = 2
    /\ ticks = 1
    /\ t_pc = "restart"

(***************************************************************************)
(* C4 (as claimed): when a remediation pass has ended, every container of  *)
(* its unhealthy list that has an id has had exactly one restart call,     *)
(* whatever the outcome of the restart calls before it.                    *)
(***************************************************************************)
C4_EveryListedContainerRestarted ==
    (t_pc = "tick_wait" /\ t_result \in {"ok", "err_restart", "err_list"}) =>
        \A k \in 1..Len(unhealthy_containers) :
            unhealthy_containers[k].id.some =>
                Cardinality({j \in 1..Len(t_log) :
                    t_log[j].id = unhealthy_containers[k].id.val}) = 1

(* A series of the family grew by exactly one and no other series changed. *)
GrowsByOneAt(fam, fam2, l) ==
    /\ DOMAIN fam2 = DOMAIN fam \cup {l}
    /\ fam2[l] = Val(fam, l) + 1
    /\ \A x \in DOMAIN fam : x # l => fam2[x] = fam[x]

(***************************************************************************)
(* C5 (as claimed): restart outcomes are counted per container.  A restart *)
(* call that succeeds adds 1 to restarts under the container's label set,  *)
(* one that fails adds 1 to restart_failures under the container's label   *)
(* set, and a pass over two unhealthy containers issues two restart calls. *)
(***************************************************************************)
C5_RestartOutcomesCounted ==
    [][ /\ (t_pc = "restart" /\ t_log' # t_log) =>
              LET l == ContainerSummaryLabels(unhealthy_containers[t_i])
                  r == t_log'[Len(t_log')].result
              IN /\ r = "ok" =>
                      /\ GrowsByOneAt(restart_counter, restart_counter', l)
                      /\ failed_restart_counter' = failed_restart_counter
                 /\ r = "err" =>
                      /\ GrowsByOneAt(failed_restart_counter,
                                      failed_restart_counter', l)
                      /\ restart_counter' = restart_counter
        /\ (/\ t_pc # "tick_wait"
            /\ t_pc' = "tick_wait"
            /\ Len(unhealthy_containers) = 2
            /\ \A k \in 1..2 : unhealthy_containers[k].id.some)
              => Len(t_log') = 2
      ]_vars

(***************************************************************************)
(* C6: without a restart interval no unhealthy-list call and no restart    *)
(* call is ever issued and the loop never runs, while scrapes still report *)
(* the classification of unhealthy containers.                             *)
(***************************************************************************)
C6_NoIntervalNoRestart ==
    ~restart_interval.some =>
        /\ list_calls = 0
        /\ ticks = 0
        /\ t_log = << >>
        /\ t_pc \in {"start", "returned"}
        /\ restart_counter = EmptyFamily
        /\ failed_restart_counter = EmptyFamily

(* No interval, run has returned, and the second scrape reports two        *)
(* containers as unhealthy.                                                *)
C6_Witness ==
    /\ ~restart_interval.some
    /\ t_pc = "returned"
    /\ scrapes = 2
    /\ s_result = "ok"
    /\ Len(containers) = 2
    /\ \A k \in 1..2 :
          Val(encoded.val, HealthLabels(containers[k], Some("UNHEALTHY"))) = 1

(***************************************************************************)
(* C7: a scrape whose enumeration call fails exposes no health             *)
(* observation and adds exactly 1 to errors; no step of a scrape changes   *)
(* any series of restarts or restart_failures.                             *)
(***************************************************************************)
C7_EnumerationFailure ==
    [][ /\ (s_pc = "list" /\ s_result' = "err_list") =>
              /\ encoded' = None
              /\ error_counter' = error_counter + 1
              /\ restart_counter' = restart_counter
              /\ failed_restart_counter' = failed_restart_counter
        /\ (scrape_vars' # scrape_vars) =>
              /\ restart_counter' = restart_counter
              /\ failed_restart_counter' = failed_restart_counter
      ]_vars

(* The enumeration of a scrape failed after a tick had counted a restart. *)
C7_Witness ==
    /\ s_result = "err_list"
    /\ encoded = None
    /\ error_counter = 1
    /\ Total(restart_counter) = 1

(***************************************************************************)
(* C8.  The classification of a raw health block, as label value.          *)
(***************************************************************************)
StatusLabel(st) ==
    CASE st = "EMPTY" -> ""
      [] st = "NONE" -> "none"
      [] st = "STARTING" -> "starting"
      [] st = "HEALTHY" -> "healthy"
      [] st = "UNHEALTHY" -> "unhealthy"

(* As claimed: absent block Unknown; present block without a recognized    *)
(* status NoHealthCheck; Empty, Starting, Healthy, Unhealthy one-to-one.   *)
ClaimedLabel(h) ==
    IF ~h.some THEN "null"
    ELSE IF h.val.status.some
            /\ h.val.status.val \in {"EMPTY", "STARTING", "HEALTHY", "UNHEALTHY"}
    THEN StatusLabel(h.val.status.val)
    ELSE "none"

(* As the code does: absent block or block without status Unknown; the     *)
(* five statuses one-to-one.                                               *)
AmendedLabel(h) ==
    IF ~h.some \/ ~h.val.status.some THEN "null"
    ELSE StatusLabel(h.val.status.val)

(* C8 (as claimed): every raw health block is classified as the claim      *)
(* says: absent as Unknown, present without a recognized status as         *)
(* NoHealthCheck, the recognized statuses one-to-one.                      *)
C8_ClassifierAsClaimed ==
    p_pc = "labelled" =>
        \A k \in 1..2 : p_out.val[k] = ClaimedLabel(p_in[k])

(***************************************************************************)
(* C8 (amended): the classifier is total and yields exactly one            *)
(* classification; an absent health block and a present block without a   *)
(* status both classify as Unknown; the statuses empty, none, starting,    *)
(* healthy, unhealthy map one-to-one onto Empty, NoHealthCheck, Starting,  *)
(* Healthy, Unhealthy, and none of them onto Unknown.                      *)
(***************************************************************************)
C8_Classifier ==
    /\ p_pc = "classified" =>
          \A k \in 1..2 :
             /\ p_out.val[k] \in ContainerHealth
             /\ p_out.val[k].some <=> (p_in[k].some /\ p_in[k].val.status.some)
    /\ p_pc = "labelled" =>
          /\ \A k \in 1..2 :
                /\ p_out.val[k] \in ClassificationLabels
                /\ p_out.val[k] = AmendedLabel(p_in[k])
          /\ (\A k \in 1..2 : p_in[k].some /\ p_in[k].val.status.some) =>
                /\ p_out.val[1] # "null"
                /\ (p_out.val[1] = p_out.val[2]
                      <=> p_in[1].val.status = p_in[2].val.status)

(* A block without status next to a block with status none: Unknown and    *)
(* NoHealthCheck.                                                          *)
C8_Witness ==
    /\ p_pc = "labelled"
    /\ p_in[1] = Some([status |-> None])
    /\ p_in[2] = Some([status |-> Some("NONE")])
    /\ p_out.val = << "null", "none" >>

(***************************************************************************)
(* C9: in a remediation pass, a listed container without id gets no        *)
(* restart call, adds exactly 1 to restart_failures, adds nothing to       *)
(* errors or restarts, and the pass goes on with the next container.       *)
(***************************************************************************)
C9_MissingIdInTick ==
    [][ (/\ t_pc = "loop"
         /\ t_i <= Len(unhealthy_containers)
         /\ ~unhealthy_containers[t_i].id.some
         /\ << tick_vars, failed_restart_counter >>'
               # << tick_vars, failed_restart_counter >>)
        => /\ Total(failed_restart_counter') = Total(failed_restart_counter) + 1
           /\ \A l \in DOMAIN failed_restart_counter :
                 /\ l \in DOMAIN failed_restart_counter'
                 /\ failed_restart_counter'[l] >= failed_restart_counter[l]
           /\ error_counter' = error_counter
           /\ restart_counter' = restart_counter
           /\ t_log' = t_log
           /\ unhealthy_containers' = unhealthy_containers
           /\ t_pc' = "loop"
           /\ t_i' = t_i + 1
      ]_vars

(* The first listed container had no id and was counted; the restart call  *)
(* of the second one is under way and errors is untouched.                 *)
C9_Witness ==
    /\ t_pc = "restart"
    /\ t_i = 2
    /\ ~unhealthy_containers[1].id.some
    /\ Total(failed_restart_counter) = 1
    /\ Len(t_log) = 1
    /\ error_counter = 0

(***************************************************************************)
(* C10: when the unhealthy-list call of a tick fails, errors grows by      *)
(* exactly 1, no restart call is issued in that tick, restarts and         *)
(* restart_failures are unchanged and the loop waits for the next tick;    *)
(* each timer tick issues exactly one list call, and the next thing the    *)
(* loop does after the failure is a timer tick with a fresh list call.     *)
(***************************************************************************)
C10_ListFailureInTick ==
    [][ /\ list_calls' = ticks'
        /\ (t_pc = "list" /\ t_result' = "err_list") =>
              /\ error_counter' = error_counter + 1
              /\ t_log' = << >>
              /\ restart_counter' = restart_counter
              /\ failed_restart_counter' = failed_restart_counter
              /\ t_pc' = "tick_wait"
        /\ (t_result = "err_list" /\ tick_vars' # tick_vars) =>
              /\ t_pc' = "list"
              /\ ticks' = ticks + 1
              /\ list_calls' = list_calls + 1
      ]_vars

(* A tick whose list call failed, followed by the next tick's list call. *)
C10_Witness ==
    /\ t_result = "err_list"
    /\ t_pc = "tick_wait"
    /\ ticks = 1
    /\ list_calls = 1
    /\ error_counter = 1
    /\ t_log = << >>

(***************************************************************************)
(* C11: a failed scrape is not fatal and leaves nothing behind.  After a   *)
(* failure the collector is idle again and, as long as invocations remain, *)
(* the next scrape can start and a waiting remediation loop can tick; the  *)
(* failing step touches nothing of the remediation loop; and a scrape all  *)
(* of whose remote calls succeeded, whatever happened in the scrapes       *)
(* before it, publishes six observations for every enumerated container    *)
(* and nothing else.                                                       *)
(***************************************************************************)
C11_FailedScrapeRecovers ==
    /\ [](ScrapeFailed =>
            /\ s_pc = "idle"
            /\ (scrapes + ticks < MaxInvocations) =>
                  /\ ENABLED ScrapeStart
                  /\ (t_pc = "tick_wait" => ENABLED TimerTick))
    /\ [][ /\ (~ScrapeFailed /\ ScrapeFailed') =>
                 /\ tick_vars' = tick_vars
                 /\ restart_interval' = restart_interval
           /\ (s_pc = "loop" /\ s_i > Len(containers)
                 /\ scrape_vars' # scrape_vars) =>
                 /\ s_result' = "ok"
                 /\ encoded'.some
                 /\ \A k \in 1..Len(containers) :
                       Cardinality(SeriesOf(encoded'.val, containers[k]))
                           = Len(values)
                 /\ Cardinality(DOMAIN encoded'.val)
                        = Len(values) * Len(containers)
         ]_vars

(* The first scrape failed, the second one enumerated two containers and   *)
(* succeeded, and the remediation loop is waiting for its timer.           *)
C11_Witness ==
    /\ scrapes = 2
    /\ ticks = 0
    /\ error_counter = 1
    /\ s_result = "ok"
    /\ Len(containers) = 2
    /\ Cardinality(DOMAIN encoded.val) = 12
    /\ t_pc = "tick_wait"

(* What a successful scrape saw: every enumerated container with the raw   *)
(* health block its inspect call returned, in no particular order.         *)
Observed(conts, log) ==
    {<< conts[k], log[k].resp.val.val.state.val.health >> :
        k \in 1..Len(conts)}

(***************************************************************************)
(* C12: two consecutive successful scrapes that saw the same containers    *)
(* with the same health, in whatever order the daemon listed them, publish *)
(* the same health snapshot: the same series with the same values.         *)
(***************************************************************************)
C12_ScrapeIdempotent ==
    (/\ s_result = "ok"
     /\ prev.some
     /\ prev.val.s_result = "ok"
     /\ Observed(containers, s_log)
            = Observed(prev.val.containers, prev.val.s_log))
        => encoded = prev.val.encoded

(* Two successful scrapes in a row saw the same two containers with the    *)
(* same health, listed in opposite orders.                                 *)
C12_Witness ==
    /\ s_result = "ok"
    /\ prev.some
    /\ prev.val.s_result = "ok"
    /\ Len(containers) = 2
    /\ containers # prev.val.containers
    /\ Observed(containers, s_log)
           = Observed(prev.val.containers, prev.val.s_log)
    /\ encoded = prev.val.encoded
    /\ Cardinality(DOMAIN encoded.val) = 12

(***************************************************************************)
(* C13: a container whose restart call failed in one tick and that the     *)
(* next tick's list call returns again gets a restart call in that next    *)
(* tick, whatever the restart calls of the other listed containers         *)
(* returned.                                                               *)
(***************************************************************************)
C13_RetryNextTick ==
    t_result \in {"ok", "err_restart"} =>
        \A id \in t_prev :
            (\E k \in 1..Len(unhealthy_containers) :
                 unhealthy_containers[k].id = Some(id))
                => \E j \in 1..Len(t_log) : t_log[j].id = id

(***************************************************************************)
(* C14: errors, restarts and restart_failures never go down.  No step of   *)
(* the process lowers errors, lowers the value of a series of restarts or  *)
(* restart_failures, or removes a series that exists.                      *)
(***************************************************************************)
C14_CountersMonotonic ==
    [][ /\ error_counter' >= error_counter
        /\ \A l \in DOMAIN restart_counter :
              /\ l \in DOMAIN restart_counter'
              /\ restart_counter'[l] >= restart_counter[l]
        /\ \A l \in DOMAIN failed_restart_counter :
              /\ l \in DOMAIN failed_restart_counter'
              /\ failed_restart_counter'[l] >= failed_restart_counter[l]
      ]_vars

(* All three counters have counted and a scrape has failed after them.     *)
C14_Witness ==
    /\ error_counter >= 1
    /\ Cardinality(DOMAIN restart_counter) = 1
    /\ Total(restart_counter) = 1
    /\ Total(failed_restart_counter) = 1
    /\ ScrapeFailed

(* The values projected under a key. *)
ValuesOf(kvs, key) ==
    {kvs[k].value : k \in {j \in 1..Len(kvs) : kvs[j].key = key}}

(***************************************************************************)
(* C15: the projected name is the first element of the names list without  *)
(* one leading '/' when it has one: "/web-1" gives "web-1", "//web" gives  *)
(* "/web", "web" stays "web".  Without a names list, or with an empty one, *)
(* no name is projected at all, which differs from projecting the empty    *)
(* string as a name.                                                       *)
(***************************************************************************)
C15_DisplayName ==
    p_pc = "projected" =>
        LET names == p_in.names
            projected == ValuesOf(p_out.val, KeyName)
        IN IF names.some /\ Len(names.val) > 0
           THEN LET first == names.val[1]
                IN /\ projected =
                        {IF Len(first) >= 1 /\ first[1] = "/"
                         THEN SubSeq(first, 2, Len(first)) ELSE first}
                   /\ first = << "/", "w", "e", "b", "-", "1" >>
                         => projected = {<< "w", "e", "b", "-", "1" >>}
                   /\ first = << "/", "/", "w", "e", "b" >>
                         => projected = {<< "/", "w", "e", "b" >>}
                   /\ first = << "w", "e", "b" >>
                         => projected = {<< "w", "e", "b" >>}
                   /\ first \in {<< "/" >>, << >>} => projected = {<< >>}
           ELSE projected = {}

(* "//web" was projected as "/web". *)
C15_Witness ==
    /\ p_pc = "projected"
    /\ p_in.names = Some(<< << "/", "/", "w", "e", "b" >> >>)
    /\ ValuesOf(p_out.val, KeyName) = {<< "/", "w", "e", "b" >>}

(***************************************************************************)
(* C16: the keys projected from a container are among id, image, name and  *)
(* health, whatever its runtime label map holds.                           *)
(***************************************************************************)
C16_OnlyFixedDimensions ==
    p_pc = "projected" =>
        {p_out.val[k].key : k \in 1..Len(p_out.val)}
            \subseteq {KeyId, KeyImage, KeyName, KeyHealth}

(***************************************************************************)
(* C17: one malformed container fails the whole scrape.  A listed          *)
(* container without id, a failed inspect call or an inspection without    *)
(* state ends the scrape with an error at that container: nothing is       *)
(* published, errors grows by exactly 1, no inspect call is issued for the *)
(* containers after it, and the next thing the collector does is a new     *)
(* scrape.                                                                 *)
(***************************************************************************)
C17_MalformedContainerFailsScrape ==
    [][ /\ (/\ s_pc = "loop"
            /\ s_i <= Len(containers)
            /\ ~containers[s_i].id.some
            /\ scrape_vars' # scrape_vars) => s_result' = "err_id"
        /\ (/\ s_pc = "inspect"
            /\ scrape_vars' # scrape_vars
            /\ LET r == s_log'[Len(s_log')].resp.val
               IN ~r.ok \/ ~r.val.state.some)
              => s_result' \in {"err_inspect", "err_state"}
        /\ (/\ s_result = "pending"
            /\ s_result' \in {"err_id", "err_inspect", "err_state"}) =>
              /\ error_counter' = error_counter + 1
              /\ encoded' = None
              /\ s_pc' = "idle"
              /\ s_i' = s_i
              /\ Len(s_log') <= s_i
        /\ (/\ s_result \in {"err_id", "err_inspect", "err_state"}
            /\ scrape_vars' # scrape_vars) =>
              /\ s_pc' = "list"
              /\ scrapes' = scrapes + 1
              /\ s_log' = << >>
              /\ error_counter' = error_counter
      ]_vars

(* The inspection of the first of two containers had no state; the second  *)
(* container, which has an id, was never inspected.                        *)
C17_Witness ==
    /\ s_result = "err_state"
    /\ Len(containers) = 2
    /\ containers[2].id.some
    /\ s_i = 1
    /\ Len(s_log) = 1
    /\ encoded = None
    /\ error_counter = 1
    /\ scrapes = 1

(* No two entries of a call log name the same container. *)
CalledOnce(log) ==
    \A i, j \in 1..Len(log) : log[i].id = log[j].id => i = j

(***************************************************************************)
(* C18: no remote call is repeated within the invocation that issued it.   *)
(* A scrape issues its enumeration call once, when it starts, and at most  *)
(* one inspect call per enumerated container, in list order.  A tick       *)
(* issues its unhealthy-list call once, when the timer fires, and at most  *)
(* one restart call per listed container.                                  *)
(***************************************************************************)
C18_NoRetry ==
    /\ [](/\ CalledOnce(s_log)
          /\ Len(s_log) <= Len(containers)
          /\ \A k \in 1..Len(s_log) : containers[k].id = Some(s_log[k].id)
          /\ CalledOnce(t_log)
          /\ Len(t_log) <= Len(unhealthy_containers)
          /\ \A k \in 1..Len(t_log) :
                \E j \in 1..Len(unhealthy_containers) :
                    unhealthy_containers[j].id = Some(t_log[k].id)
          /\ list_calls = ticks)
    /\ [][ /\ (scrape_vars' # scrape_vars /\ s_pc' = "list") =>
                 (s_pc = "idle" /\ scrapes' = scrapes + 1)
           /\ (scrape_vars' # scrape_vars /\ s_pc # "idle") =>
                 scrapes' = scrapes
           /\ (tick_vars' # tick_vars /\ t_pc' = "list") =>
                 /\ t_pc = "tick_wait"
                 /\ ticks' = ticks + 1
                 /\ list_calls' = list_calls + 1
           /\ (tick_vars' # tick_vars /\ t_pc # "tick_wait") =>
                 (ticks' = ticks /\ list_calls' = list_calls)
         ]_vars

(* A scrape that inspected two containers and a tick that restarted two    *)
(* containers, both completed.                                             *)
C18_Witness ==
    /\ s_result = "ok"
    /\ Len(s_log) = 2
    /\ t_result = "ok"
    /\ Len(t_log) = 2
    /\ scrapes = 1
    /\ ticks = 1
    /\ list_calls = 1

(***************************************************************************)
(* C19: once the server task has ended with an error, whether it failed to *)
(* bind or failed while serving, the process eventually exits with a       *)
(* non-zero code, with or without a restart interval configured.           *)
(***************************************************************************)
C19_ServerFailureExits ==
    (server_pc = "failed") ~> (exit_code.some /\ exit_code.val # 0)

(***************************************************************************)
(* C20: the snapshot of a successful scrape is built from scratch and      *)
(* covers exactly the containers that scrape enumerated: six observations  *)
(* for each of them and no series of any other container, whatever an      *)
(* earlier scrape published.                                               *)
(***************************************************************************)
C20_SnapshotFromScratch ==
    s_result = "ok" =>
        /\ encoded.some
        /\ \A l \in DOMAIN encoded.val :
              \E k \in 1..Len(containers) :
                  l \in SeriesOf(encoded.val, containers[k])
        /\ \A k \in 1..Len(containers) :
              {l.health : l \in SeriesOf(encoded.val, containers[k])}
                  = {Some(v) : v \in ClassificationLabels}
        /\ Cardinality(DOMAIN encoded.val) = 6 * Len(containers)

(* A successful scrape of two containers is followed by a successful       *)
(* scrape that enumerated only one of them.                                *)
C20_Witness ==
    /\ s_result = "ok"
    /\ prev.some
    /\ prev.val.s_result = "ok"
    /\ Len(prev.val.containers) = 2
    /\ Len(containers) = 1
    /\ Cardinality(DOMAIN prev.val.encoded.val) = 12
    /\ Cardinality(DOMAIN encoded.val) = 6

TickFailed == t_result \in {"err_list", "err_id", "err_restart"}

(* 1 when the condition holds, 0 otherwise. *)
Count(b) == IF b THEN 1 ELSE 0

(***************************************************************************)
(* C21: errors counts the failed invocations one for one, however scrapes  *)
(* and ticks interleave.  It starts at 0 and every step of the process     *)
(* adds to it exactly the number of invocations that end with an error in  *)
(* that step: 1 for a scrape whose collection fails, 1 for a tick whose    *)
(* pass fails, nothing for a scrape or a tick that completes without error *)
(* or for any other step.  Hence in every state errors is at least the     *)
(* number of failures among the latest scrape and the latest tick, and at  *)
(* most the number of invocations started minus those among the latest     *)
(* two that are running or ended without error.                            *)
(***************************************************************************)
C21_ErrorsCountFailures ==
    /\ (error_counter = 0) \/ (scrapes + ticks > 0)
    /\ [](/\ error_counter >= Count(ScrapeFailed) + Count(TickFailed)
          /\ error_counter <=
                 scrapes + ticks - Count(s_result \in {"pending", "ok"})
                                 - Count(t_result \in {"pending", "ok"}))
    /\ [][ error_counter' - error_counter =
               Count(s_result = "pending" /\ ScrapeFailed')
             + Count(t_result = "pending" /\ TickFailed')
         ]_vars

(* A scrape failed at its inspect call, and was counted, while a tick was  *)
(* waiting for the answer to its restart call.                             *)
C21_Witness ==
    /\ scrapes = 1
    /\ ticks = 1
    /\ s_result = "err_inspect"
    /\ t_pc = "restart"
    /\ t_result = "pending"
    /\ error_counter = 1

=============================================================================
